---- MODULE Spec2Model ----
(***************************************************************************)
(* The deal tracker of src/deal_tracker.py: the journal and deliverables   *)
(* tables, the dependency resolution inside store_deliverable, the         *)
(* log / batch_log commands that ingest extracted entries, and the         *)
(* schedule command that shows the deliverables.                           *)
(*                                                                         *)
(* Text that the program inspects character by character (descriptions,    *)
(* dependency descriptions) is a sequence of one-character strings.  A     *)
(* Python value that may be None, and an SQL column that may be NULL, is   *)
(* None or Some(v).                                                        *)
(***************************************************************************)
EXTENDS Integers, Sequences, FiniteSets, TLC

VARIABLES
    journal,        \* the journal table, in rowid order
    deliverables,   \* the deliverables table, in rowid order
    pc,             \* position of the running command
    metadata,       \* log / batch_log: the dict parse_and_distribute returned
    i,              \* log / batch_log: index of the enumerate() loop
    parsed_entries, \* batch_log: the entries not yet processed
    call,           \* history: the last store_deliverable call of the entry
    made,           \* history: the ids of the rows inserted for the entry's tasks
    conn,           \* the connection the last operation opened: "open" or "closed"
    view            \* schedule: what the command has shown

vars == <<journal, deliverables, pc, metadata, i, parsed_entries, call, made,
          conn, view>>

None == <<>>
Some(v) == <<v>>

----------------------------------------------------------------------------
(* Bounds of the model *)

MaxRows == 3
MaxJournal == 2
MaxTasks == 2
MaxEntries == 2

(* Inputs *)

DealNames == {"", "P"}
TaskTexts == { <<"A">>, <<"a", "B">> }
DepTexts == { <<>>, <<" ">>, <<"b", " ">>, <<"_">> }
EntryTexts == { <<"Project", " ", "P", ":", "t">>, <<"t">> }
LogTexts == { <<"t">> }

Min(S) == CHOOSE x \in S : \A y \in S : x <= y

\* The lists of length 0..n over S
SeqsUpTo(S, n) == UNION { [1..k -> S] : k \in 0..n }

\* The list d1, d2, ..., dk of k distinct values, written 1..k
Distinct(k) == [j \in 1..k |-> j]

----------------------------------------------------------------------------
(* Text *)

IsSpace(c) == c = " "

RECURSIVE lstrip(_)
lstrip(s) == IF s /= <<>> /\ IsSpace(Head(s)) THEN lstrip(Tail(s)) ELSE s

RECURSIVE rstrip(_)
rstrip(s) ==
    IF s /= <<>> /\ IsSpace(s[Len(s)]) THEN rstrip(SubSeq(s, 1, Len(s) - 1)) ELSE s

strip(s) == rstrip(lstrip(s))

\* SQLite folds the ASCII letters before it compares them in LIKE
Fold(c) == IF c = "A" THEN "a" ELSE IF c = "B" THEN "b" ELSE c

\* Mutant of patternCompare: letters compared with their case
RECURSIVE patternCompareCase(_, _)
patternCompareCase(p, s) ==
    IF p = <<>> THEN s = <<>>
    ELSE IF Head(p) = "%"
        THEN \E k \in 0..Len(s) :
                patternCompareCase(Tail(p), SubSeq(s, k + 1, Len(s)))
    ELSE IF s = <<>> THEN FALSE
    ELSE IF Head(p) = "_" THEN patternCompareCase(Tail(p), Tail(s))
    ELSE Head(p) = Head(s) /\ patternCompareCase(Tail(p), Tail(s))

\* SQLite's LIKE: % is any run of characters, _ any one character
RECURSIVE patternCompare(_, _)
patternCompare(p, s) ==
    IF p = <<>> THEN s = <<>>
    ELSE IF Head(p) = "%"
        THEN \E k \in 0..Len(s) : patternCompare(Tail(p), SubSeq(s, k + 1, Len(s)))
    ELSE IF s = <<>> THEN FALSE
    ELSE IF Head(p) = "_" THEN patternCompare(Tail(p), Tail(s))
    ELSE Fold(Head(p)) = Fold(Head(s)) /\ patternCompare(Tail(p), Tail(s))

\* Mutant of LikeParam: the closing % left out
likeParamNoTail(depends_on_desc) == <<"%">> \o strip(depends_on_desc)

\* The parameter f"%{depends_on_desc.strip()}%"
LikeParam(depends_on_desc) == <<"%">> \o strip(depends_on_desc) \o <<"%">>

\* deal_name=? : a comparison with NULL is never true
SqlEq(a, b) == a /= None /\ b /= None /\ a = b

----------------------------------------------------------------------------
(* The store *)

lastrowid(rows) == IF rows = <<>> THEN 0 ELSE rows[Len(rows)].id

\* Mutant of Insert: INSERT OR REPLACE under the rowid of the last row
insertOrReplace(rows, row) ==
    IF rows = <<>> THEN <<[row EXCEPT !.id = 1]>>
    ELSE [rows EXCEPT ![Len(rows)] = [row EXCEPT !.id = lastrowid(rows)]]

Insert(rows, row) == Append(rows, [row EXCEPT !.id = lastrowid(rows) + 1])

store_journal_entry(rows, deal_name, entry_type, raw_note) ==
    Insert(rows, [id |-> 0, deal_name |-> deal_name,
                  entry_type |-> entry_type, raw_note |-> raw_note])

\* Mutant of fetchone: the matching row of the largest rowid
fetchoneLatest(rows, deal_name, param) ==
    LET hits == { k \in 1..Len(rows) :
                    /\ SqlEq(rows[k].deal_name, deal_name)
                    /\ patternCompare(param, rows[k].description) }
    IN IF hits = {} THEN None
       ELSE Some(rows[CHOOSE k \in hits : \A m \in hits : m <= k].id)

\* Mutant of fetchone: the deal_name=? condition left out
fetchoneAnyProject(rows, deal_name, param) ==
    LET hits == { k \in 1..Len(rows) :
                    patternCompare(param, rows[k].description) }
    IN IF hits = {} THEN None ELSE Some(rows[Min(hits)].id)

\* SELECT id FROM deliverables WHERE deal_name=? AND description LIKE ?
\* followed by fetchone(): the matching row of the smallest rowid
fetchone(rows, deal_name, param) ==
    LET hits == { k \in 1..Len(rows) :
                    /\ SqlEq(rows[k].deal_name, deal_name)
                    /\ patternCompare(param, rows[k].description) }
    IN IF hits = {} THEN None ELSE Some(rows[Min(hits)].id)

\* The same SELECT read to its end: the ids of the matching rows, in rowid
\* order
selectIds(rows, deal_name, param) ==
    LET F[k \in 0..Len(rows)] ==
            IF k = 0 THEN <<>>
            ELSE IF /\ SqlEq(rows[k].deal_name, deal_name)
                    /\ patternCompare(param, rows[k].description)
                 THEN Append(F[k - 1], rows[k].id)
                 ELSE F[k - 1]
    IN F[Len(rows)]

\* if depends_on_desc:
Truthy(depends_on_desc) == depends_on_desc /= None /\ depends_on_desc[1] /= <<>>

\* Mutant of store_deliverable: c.lastrowid read after the second INSERT
storeDeliverableLateRowid(rows, deal_name, description, due_date, agent, depends_on_desc, create) ==
    LET match == IF Truthy(depends_on_desc)
                 THEN fetchone(rows, deal_name, LikeParam(depends_on_desc[1]))
                 ELSE None
        prompted == Truthy(depends_on_desc) /\ match = None
        created == prompted /\ create
        rows1 == IF created
                 THEN Insert(rows, [id |-> 0, deal_name |-> deal_name,
                                    description |-> depends_on_desc[1],
                                    due_date |-> None, agent |-> None,
                                    depends_on_id |-> None])
                 ELSE rows
        depends_on_id == IF match /= None THEN match
                         ELSE IF created THEN Some(lastrowid(rows1) + 1)
                         ELSE None
    IN [rows |-> Insert(rows1, [id |-> 0, deal_name |-> deal_name,
                                description |-> description,
                                due_date |-> due_date, agent |-> agent,
                                depends_on_id |-> depends_on_id]),
        prompted |-> prompted,
        depends_on_id |-> depends_on_id]

\* Mutant of store_deliverable: the placeholder created whatever the answer
storeDeliverableAlwaysCreates(rows, deal_name, description, due_date, agent, depends_on_desc, create) ==
    LET match == IF Truthy(depends_on_desc)
                 THEN fetchone(rows, deal_name, LikeParam(depends_on_desc[1]))
                 ELSE None
        prompted == Truthy(depends_on_desc) /\ match = None
        created == prompted
        rows1 == IF created
                 THEN Insert(rows, [id |-> 0, deal_name |-> deal_name,
                                    description |-> depends_on_desc[1],
                                    due_date |-> None, agent |-> None,
                                    depends_on_id |-> None])
                 ELSE rows
        depends_on_id == IF match /= None THEN match
                         ELSE IF created THEN Some(lastrowid(rows1))
                         ELSE None
    IN [rows |-> Insert(rows1, [id |-> 0, deal_name |-> deal_name,
                                description |-> description,
                                due_date |-> due_date, agent |-> agent,
                                depends_on_id |-> depends_on_id]),
        prompted |-> prompted,
        depends_on_id |-> depends_on_id]

\* Mutant of store_deliverable: the deliverable inserted before its
\* dependency is looked up
storeDeliverableInsertFirst(rows, deal_name, description, due_date, agent, depends_on_desc, create) ==
    LET rows0 == Insert(rows, [id |-> 0, deal_name |-> deal_name,
                               description |-> description,
                               due_date |-> due_date, agent |-> agent,
                               depends_on_id |-> None])
        match == IF Truthy(depends_on_desc)
                 THEN fetchone(rows0, deal_name, LikeParam(depends_on_desc[1]))
                 ELSE None
        prompted == Truthy(depends_on_desc) /\ match = None
        created == prompted /\ create
        depends_on_id == IF match /= None THEN match
                         ELSE IF created THEN Some(lastrowid(rows0) + 1)
                         ELSE None
        rows1 == [rows0 EXCEPT ![Len(rows0)].depends_on_id = depends_on_id]
    IN [rows |-> IF created
                 THEN Insert(rows1, [id |-> 0, deal_name |-> deal_name,
                                     description |-> depends_on_desc[1],
                                     due_date |-> None, agent |-> None,
                                     depends_on_id |-> None])
                 ELSE rows1,
        prompted |-> prompted,
        depends_on_id |-> depends_on_id]

\* store_deliverable with the answer `create` to its prompt, should it ask
store_deliverable(rows, deal_name, description, due_date, agent, depends_on_desc, create) ==
    LET match == IF Truthy(depends_on_desc)
                 THEN fetchone(rows, deal_name, LikeParam(depends_on_desc[1]))
                 ELSE None
        prompted == Truthy(depends_on_desc) /\ match = None
        created == prompted /\ create
        rows1 == IF created
                 THEN Insert(rows, [id |-> 0, deal_name |-> deal_name,
                                    description |-> depends_on_desc[1],
                                    due_date |-> None, agent |-> None,
                                    depends_on_id |-> None])
                 ELSE rows
        depends_on_id == IF match /= None THEN match
                         ELSE IF created THEN Some(lastrowid(rows1))
                         ELSE None
    IN [rows |-> Insert(rows1, [id |-> 0, deal_name |-> deal_name,
                                description |-> description,
                                due_date |-> due_date, agent |-> agent,
                                depends_on_id |-> depends_on_id]),
        prompted |-> prompted,
        depends_on_id |-> depends_on_id]

----------------------------------------------------------------------------
(* Extraction and the commands *)

\* metadata.get(key) and metadata.get(key, [])
get(d, key) == IF key \in DOMAIN d THEN Some(d[key]) ELSE None
getlist(d, key) == IF key \in DOMAIN d THEN d[key] ELSE <<>>

\* What parse_and_distribute may return for a text: the arguments of the
\* function call, or {"raw_ai": entry_text} when the request or the JSON fails
parse_and_distribute(entry_text) ==
    { md \in { [deal_name |-> d, entry_type |-> "note", notes |-> "n",
       deliverables |-> t, dates |-> Distinct(nd),
       agents |-> Distinct(MaxTasks - nd), dependencies |-> dp] :
         d \in DealNames, t \in SeqsUpTo(TaskTexts, MaxTasks),
         nd \in 0..MaxTasks, dp \in SeqsUpTo(DepTexts, MaxTasks) } :
         Len(md.dependencies) <= Len(md.deliverables) + 1 }
    \cup { [raw_ai |-> entry_text] }

\* Mutant of At: the last value of a list reused for the indexes past its end
AtOrLast(list, k) ==
    IF k < Len(list) THEN Some(list[k + 1])
    ELSE IF list /= <<>> THEN Some(list[Len(list)]) ELSE None

\* depends_on = dependencies[i] if i < len(dependencies) else None
At(list, k) == IF k < Len(list) THEN Some(list[k + 1]) ELSE None

\* The most rows the table can hold after the loop over md's deliverables has
\* run from index k on rows, whatever the answers to the prompts
RECURSIVE MostRows(_, _, _)
MostRows(rows, md, k) ==
    IF k >= Len(getlist(md, "deliverables")) THEN Len(rows)
    ELSE LET after(create) ==
                store_deliverable(rows, get(md, "deal_name"),
                                  getlist(md, "deliverables")[k + 1],
                                  At(getlist(md, "dates"), k),
                                  At(getlist(md, "agents"), k),
                                  At(getlist(md, "dependencies"), k), create)
             yes == MostRows(after(TRUE).rows, md, k + 1)
             no == MostRows(after(FALSE).rows, md, k + 1)
         IN IF ~after(TRUE).prompted \/ no <= yes THEN yes ELSE no

\* The table has room for the entry
Fits(md) ==
    /\ Len(deliverables) + Len(getlist(md, "deliverables")) <= MaxRows
    /\ MostRows(deliverables, md, 0) <= MaxRows

\* re.match(r'^Project\s+(.+?):', entry_text)
HasProject(entry_text) ==
    /\ Len(entry_text) >= 4
    /\ entry_text[1] = "Project"
    /\ entry_text[2] = " "
    /\ entry_text[4] = ":"

\* SELECT DISTINCT deal_name FROM deliverables
projects(rows) == { rows[k].deal_name : k \in 1..Len(rows) }

\* click.prompt(..., type=click.Choice(projects)): the names the user can
\* select; the prompt asks again on an empty line, so "" cannot be entered
Choice(names) == { p \in names : p /= None /\ p[1] /= "" }

\* ORDER BY due_date: NULL first, then ascending
SortKey(due_date) == IF due_date = None THEN 0 ELSE due_date[1]

\* The orders in which ORDER BY due_date can return the rows at the places
\* idx of the table: rows of equal due_date come in any order
OrderByDueDate(rows, idx) ==
    { f \in [1..Cardinality(idx) -> idx] :
        /\ \A a, b \in DOMAIN f : a /= b => f[a] /= f[b]
        /\ \A a, b \in DOMAIN f :
              a < b => SortKey(rows[f[a]].due_date) <= SortKey(rows[f[b]].due_date) }

\* Mutant of dependency_lookup: built from the rows that have a due date
dependencyLookupDated(rows, project) ==
    LET idx == { k \in 1..Len(rows) :
                   SqlEq(rows[k].deal_name, project) /\ rows[k].due_date /= None }
    IN [id \in { rows[k].id : k \in idx } |->
           rows[CHOOSE k \in idx : rows[k].id = id].description]

\* dependency_lookup = {row[0]: row[1] for row in c.fetchall()}
dependency_lookup(rows, project) ==
    LET idx == { k \in 1..Len(rows) : SqlEq(rows[k].deal_name, project) }
    IN [id \in { rows[k].id : k \in idx } |->
           rows[CHOOSE k \in idx : rows[k].id = id].description]

Unknown == <<"Unknown">>
NoDate == <<"No date">>

\* One line of the loop at 265-267: due or 'No date', the description, and
\* the note of the dependency
Line(row, lookup) ==
    [due |-> IF row.due_date = None THEN NoDate ELSE <<"date", row.due_date[1]>>,
     desc |-> row.description,
     dep_note |-> IF row.depends_on_id /= None /\ row.depends_on_id[1] /= 0
                  THEN IF row.depends_on_id[1] \in DOMAIN lookup
                       THEN Some(lookup[row.depends_on_id[1]])
                       ELSE Some(Unknown)
                  ELSE None]

\* One bar of the chart of all projects
Bar(row) == [task |-> row.description, due |-> row.due_date[1]]

\* A connection that was opened and never closed when its function was left:
\* it stays open until the interpreter collects the object, which may be at
\* once or not before the process ends
Unclosed == {"open", "closed"}

Init ==
    /\ journal = <<>>
    /\ deliverables = <<>>
    /\ pc = "idle"
    /\ metadata = None
    /\ i = 0
    /\ parsed_entries = <<>>
    /\ call = None
    /\ made = <<>>
    /\ conn = "closed"
    /\ view = None

\* log: lines 204-215, up to the loop
Log ==
    /\ pc = "idle"
    /\ Len(journal) < MaxJournal
    /\ \E text \in LogTexts : \E md \in parse_and_distribute(text) :
        /\ Fits(md)
        /\ journal' = store_journal_entry(journal, get(md, "deal_name"),
                                          get(md, "entry_type"), get(md, "notes"))
        /\ metadata' = md
        /\ i' = 0
        /\ pc' = IF getlist(md, "deliverables") = <<>> THEN "done" ELSE "log"
    /\ conn' = "closed"
    /\ UNCHANGED <<deliverables, parsed_entries, call, made, view>>

\* One iteration of the loop of log (217-221) or batch_log (186-190)
StoreDeliverable ==
    /\ pc \in {"log", "batch_loop"}
    /\ \E answer \in {"y", "n", "abort"} :
        LET tasks == getlist(metadata, "deliverables")
            deal_name == get(metadata, "deal_name")
            due == At(getlist(metadata, "dates"), i)
            agent == At(getlist(metadata, "agents"), i)
            depends_on == At(getlist(metadata, "dependencies"), i)
            r == store_deliverable(deliverables, deal_name, tasks[i + 1], due,
                                   agent, depends_on, answer = "y")
            aborted == r.prompted /\ answer = "abort"
        IN /\ call' = Some([deal_name |-> deal_name, description |-> tasks[i + 1],
                            due_date |-> due, agent |-> agent,
                            depends_on_desc |-> depends_on,
                            answer |-> IF r.prompted THEN answer ELSE "",
                            before |-> deliverables, prompted |-> r.prompted,
                            aborted |-> aborted, index |-> i])
           /\ IF aborted
              THEN /\ pc' = "aborted"
                   /\ conn' \in Unclosed
                   /\ UNCHANGED <<deliverables, i, made>>
              ELSE /\ deliverables' = r.rows
                   /\ conn' = "closed"
                   /\ made' = Append(made, lastrowid(r.rows))
                   /\ i' = i + 1
                   /\ pc' = IF i + 1 < Len(tasks) THEN pc
                            ELSE IF pc = "log" THEN "done" ELSE "batch"
    /\ UNCHANGED <<journal, metadata, parsed_entries, view>>

\* batch_log: lines 161-165, the file split into entries; only the text
\* before the first "Project ...:" line can be an entry without one
BatchLog ==
    /\ pc = "idle"
    /\ \E es \in SeqsUpTo(EntryTexts, MaxEntries) :
        /\ \A k \in 2..Len(es) : HasProject(es[k])
        /\ Cardinality({ k \in 1..Len(es) : HasProject(es[k]) })
              <= MaxJournal - Len(journal)
        /\ parsed_entries' = es
    /\ pc' = "batch"
    /\ UNCHANGED <<journal, deliverables, metadata, i, call, made, conn, view>>

\* batch_log: lines 167-184, the head of the loop over the entries
BatchEntry ==
    /\ pc = "batch"
    /\ parsed_entries /= <<>>
    /\ parsed_entries' = Tail(parsed_entries)
    /\ UNCHANGED view
    /\ LET entry_text == Head(parsed_entries)
       IN IF ~HasProject(entry_text)
          THEN UNCHANGED <<journal, deliverables, pc, metadata, i, call, made, conn>>
          ELSE \E md \in parse_and_distribute(entry_text) :
                /\ Fits(md)
                /\ journal' = store_journal_entry(journal, get(md, "deal_name"),
                                  get(md, "entry_type"), get(md, "notes"))
                /\ metadata' = md
                /\ i' = 0
                /\ pc' = IF getlist(md, "deliverables") = <<>>
                         THEN "batch" ELSE "batch_loop"
                /\ call' = None
                /\ made' = <<>>
                /\ conn' = "closed"
                /\ UNCHANGED deliverables

\* batch_log: lines 192-199, the file archived after the last entry
BatchArchive ==
    /\ pc = "batch"
    /\ parsed_entries = <<>>
    /\ pc' = "done"
    /\ UNCHANGED <<journal, deliverables, metadata, i, parsed_entries, call, made,
                   conn, view>>

\* schedule: lines 225-269
Schedule ==
    /\ pc = "idle"
    /\ \E all_projects \in BOOLEAN :
        IF all_projects
        THEN \* 229-241: the rows with a due date, charted
             \E f \in OrderByDueDate(deliverables,
                        { k \in 1..Len(deliverables) : deliverables[k].due_date /= None }) :
                /\ view' = Some([kind |-> "chart",
                                lines |-> [a \in DOMAIN f |-> Bar(deliverables[f[a]])]])
                /\ pc' = "done"
                /\ conn' = "closed"
        ELSE IF projects(deliverables) = {}
        THEN \* 246-248: return, and conn.close() at 269 is not reached
             /\ view' = Some([kind |-> "No projects found."])
             /\ pc' = "done"
             /\ conn' \in Unclosed
        ELSE \* 250: the user selects a project or aborts the prompt
             \E project \in Choice(projects(deliverables)) \cup {None} :
                IF project = None
                THEN /\ pc' = "aborted"
                     /\ conn' \in Unclosed
                     /\ UNCHANGED view
                ELSE LET idx == { k \in 1..Len(deliverables) :
                                    SqlEq(deliverables[k].deal_name, project) }
                         lookup == dependency_lookup(deliverables, project)
                     IN IF idx = {}
                        THEN \* 260-262: return, and conn.close() is not reached
                             /\ view' = Some([kind |-> "No deliverables found",
                                              project |-> project[1]])
                             /\ pc' = "done"
                             /\ conn' \in Unclosed
                        ELSE \E f \in OrderByDueDate(deliverables, idx) :
                                /\ view' = Some([kind |-> "Deliverables for",
                                        project |-> project[1],
                                        lines |-> [a \in DOMAIN f |->
                                                     Line(deliverables[f[a]], lookup)]])
                                /\ pc' = "done"
                                /\ conn' = "closed"
    /\ UNCHANGED <<journal, deliverables, metadata, i, parsed_entries, call, made>>

\* The command returns, or click ends it on Abort: the process exits and the
\* next invocation starts with fresh locals
Exit ==
    /\ pc \in {"done", "aborted"}
    /\ pc' = "idle"
    /\ metadata' = None
    /\ i' = 0
    /\ parsed_entries' = <<>>
    /\ call' = None
    /\ made' = <<>>
    /\ conn' = "closed"
    /\ view' = None
    /\ UNCHANGED <<journal, deliverables>>

Next ==
    Log \/ StoreDeliverable \/ BatchLog \/ BatchEntry \/ BatchArchive \/ Schedule \/ Exit

Spec == Init /\ [][Next]_vars

----------------------------------------------------------------------------
(* Matching alone: one stored deliverable of any description, and a log entry *)
(* of one task that names any dependency description                          *)

MaxText == 2
Chars == {"a", "A", "b", "_", "%", " "}
Texts == SeqsUpTo(Chars, MaxText)

InitLike ==
    \E text \in Texts : \E dep \in Texts \ {<<>>} :
        /\ journal = store_journal_entry(
                         store_journal_entry(<<>>, Some("P"), Some("note"), Some("n")),
                         Some("P"), Some("note"), Some("n"))
        /\ deliverables = store_deliverable(<<>>, Some("P"), text, None, None,
                                            None, FALSE).rows
        /\ pc = "log"
        /\ metadata = [deal_name |-> "P", entry_type |-> "note", notes |-> "n",
                       deliverables |-> << <<"A">> >>, dates |-> <<>>,
                       agents |-> <<>>, dependencies |-> <<dep>>]
        /\ i = 0
        /\ parsed_entries = <<>>
        /\ call = None
        /\ made = <<>>
        /\ conn = "closed"
        /\ view = None

NextLike == StoreDeliverable \/ Exit

SpecLike == InitLike /\ [][NextLike]_vars

----------------------------------------------------------------------------
(* What the claims speak of *)

Ids(rows) == { rows[k].id : k \in 1..Len(rows) }
RowOf(rows, id) == CHOOSE r \in { rows[k] : k \in 1..Len(rows) } : r.id = id
Last(rows) == rows[Len(rows)]

\* The rows of `rows` after the first n
After(rows, n) == SubSeq(rows, n + 1, Len(rows))

\* c and d are the same character up to the case of a letter
SameLetter(c, d) == c = d \/ {c, d} \in { {"a", "A"}, {"b", "B"} }

\* text contains wanted as a case-preserving literal substring
Contains(text, wanted) ==
    \E k \in 0..(Len(text) - Len(wanted)) :
        SubSeq(text, k + 1, k + Len(wanted)) = wanted

\* text contains wanted when letters compare without case, _ in wanted stands
\* for any one character and % for any run of characters: the characters of
\* wanted other than % sit at increasing places of text, neighbours in wanted
\* at neighbouring places
LikeContains(text, wanted) ==
    LET idx == { k \in 1..Len(wanted) : wanted[k] /= "%" }
    IN \E f \in [idx -> 1..Len(text)] :
        /\ \A k \in idx : wanted[k] = "_" \/ SameLetter(wanted[k], text[f[k]])
        /\ \A k \in idx : (k + 1) \in idx => f[k + 1] = f[k] + 1
        /\ \A k, m \in idx : k < m => f[k] < f[m]

\* wanted with the blanks at its two ends removed
Trimmed(wanted) ==
    LET inner == { k \in 1..Len(wanted) : wanted[k] /= " " }
    IN IF inner = {} THEN <<>>
       ELSE SubSeq(wanted, Min(inner), CHOOSE k \in inner : \A m \in inner : m <= k)

\* The ids of the rows of project deal_name whose description matches wanted
Matching(rows, deal_name, wanted) ==
    { rows[k].id : k \in { m \in 1..Len(rows) :
                             /\ rows[m].deal_name = deal_name
                             /\ LikeContains(rows[m].description, Trimmed(wanted)) } }

\* A store_deliverable call has returned and nothing has happened since
Called == call /= None /\ ~call[1].aborted
TheCall == call[1]

\* The call was given a dependency description that is not the empty string
Named == TheCall.depends_on_desc /= None /\ TheCall.depends_on_desc[1] /= <<>>
Wanted == TheCall.depends_on_desc[1]

\* C1: every deliverable row with a depends_on_id references the id of a row
\* of the table, and that row was inserted before the referencing row.
RefIntegrity ==
    \A k \in 1..Len(deliverables) :
        deliverables[k].depends_on_id /= None =>
            \E j \in 1..(k - 1) :
                deliverables[j].id = deliverables[k].depends_on_id[1]

\* C1 witness: a row linked to a matched row and a row linked to a placeholder
\* created for it
RefIntegrityWitness ==
    /\ Called /\ Named /\ ~TheCall.prompted
    /\ Last(deliverables).depends_on_id /= None
    /\ \E k \in 2..Len(TheCall.before) :
        /\ TheCall.before[k].depends_on_id = Some(TheCall.before[k - 1].id)
        /\ TheCall.before[k - 1].due_date = None

\* C2: when the named dependency matches no row of the project, a declined
\* prompt adds only the deliverable, unlinked; an accepted prompt adds one
\* placeholder (same project, description = depends_on_desc, no due date,
\* owner or dependency) and then the deliverable, linked to the placeholder.
MissingDependency ==
    (Called /\ Named
        /\ Matching(TheCall.before, TheCall.deal_name, Wanted) = {}) =>
    LET n == Len(TheCall.before)
        new == After(deliverables, n)
    IN /\ SubSeq(deliverables, 1, n) = TheCall.before
       /\ TheCall.prompted
       /\ TheCall.answer = "n" =>
            /\ Len(new) = 1
            /\ new[1].description = TheCall.description
            /\ new[1].depends_on_id = None
       /\ TheCall.answer = "y" =>
            /\ Len(new) = 2
            /\ new[1].id \notin Ids(TheCall.before)
            /\ new[1].deal_name = TheCall.deal_name
            /\ new[1].description = Wanted
            /\ new[1].due_date = None
            /\ new[1].agent = None
            /\ new[1].depends_on_id = None
            /\ new[2].description = TheCall.description
            /\ new[2].deal_name = TheCall.deal_name
            /\ new[2].depends_on_id = Some(new[1].id)

\* C2 witness: an accepted prompt in a project that already has rows
MissingDependencyWitness ==
    /\ Called /\ Named
    /\ Matching(TheCall.before, TheCall.deal_name, Wanted) = {}
    /\ TheCall.answer = "y"
    /\ \E k \in 1..Len(TheCall.before) :
        TheCall.before[k].deal_name = TheCall.deal_name

\* C2 witness of the other answer: a declined prompt
DeclinedWitness ==
    /\ Called /\ Named
    /\ Matching(TheCall.before, TheCall.deal_name, Wanted) = {}
    /\ TheCall.answer = "n"

\* C3: a dependency description that is null, empty or all blanks issues no
\* prompt, creates no placeholder and stores the deliverable unlinked.
BlankIsNoDependency ==
    (Called /\ (TheCall.depends_on_desc = None
                  \/ Trimmed(TheCall.depends_on_desc[1]) = <<>>)) =>
        /\ ~TheCall.prompted
        /\ Len(deliverables) = Len(TheCall.before) + 1
        /\ Last(deliverables).depends_on_id = None

\* C4: when rows of the project match the named dependency, the deliverable
\* is linked to the matching row of the smallest id, with no prompt and no
\* placeholder.
EarliestMatch ==
    (Called /\ Named
        /\ Matching(TheCall.before, TheCall.deal_name, Wanted) /= {}) =>
        /\ ~TheCall.prompted
        /\ deliverables = Append(TheCall.before, Last(deliverables))
        /\ Last(deliverables).description = TheCall.description
        /\ Last(deliverables).depends_on_id =
             Some(Min(Matching(TheCall.before, TheCall.deal_name, Wanted)))

\* C4 witness: two rows match and the later one is not chosen
EarliestMatchWitness ==
    /\ Called /\ Named
    /\ Cardinality(Matching(TheCall.before, TheCall.deal_name, Wanted)) >= 2
    /\ Last(deliverables).depends_on_id /= None

\* C5: a call for project P never links to a row of another project, and
\* every linked row has the project of the row it depends on.
ProjectScoped ==
    /\ \A k \in 1..Len(deliverables) :
        deliverables[k].depends_on_id /= None =>
            \E j \in 1..Len(deliverables) :
                /\ deliverables[j].id = deliverables[k].depends_on_id[1]
                /\ deliverables[j].deal_name = deliverables[k].deal_name
    /\ (Called /\ Last(deliverables).depends_on_id /= None) =>
         RowOf(deliverables, Last(deliverables).depends_on_id[1]).deal_name
            = TheCall.deal_name

\* C5 witness: only a row of another project matches, and the call prompts
ProjectScopedWitness ==
    /\ Called /\ Named /\ TheCall.prompted
    /\ \E k \in 1..Len(TheCall.before) :
        /\ TheCall.before[k].deal_name /= TheCall.deal_name
        /\ LikeContains(TheCall.before[k].description, Trimmed(Wanted))
        /\ Trimmed(Wanted) /= <<>>

\* C6 as claimed: a named dependency is linked to a row exactly when the
\* row's description contains the trimmed description as a case-preserving
\* literal substring.
SubstringMatching ==
    (Called /\ Named) =>
        /\ TheCall.prompted <=>
             ~\E k \in 1..Len(TheCall.before) :
                /\ TheCall.before[k].deal_name = TheCall.deal_name
                /\ Contains(TheCall.before[k].description, Trimmed(Wanted))
        /\ ~TheCall.prompted =>
             Contains(RowOf(deliverables, Last(deliverables).depends_on_id[1]).description,
                      Trimmed(Wanted))

\* C6 as amended: a named dependency is linked to a row exactly when the
\* row's description contains the trimmed description with letters compared
\* without case and _ and % in it standing for any one character and any run
\* of characters; a case-preserving literal substring is such a match.
LikeMatching ==
    /\ (Called /\ Named) =>
        /\ TheCall.prompted <=>
             ~\E k \in 1..Len(TheCall.before) :
                /\ TheCall.before[k].deal_name = TheCall.deal_name
                /\ LikeContains(TheCall.before[k].description, Trimmed(Wanted))
        /\ ~TheCall.prompted =>
             LikeContains(RowOf(deliverables,
                                Last(deliverables).depends_on_id[1]).description,
                          Trimmed(Wanted))
    /\ (Called /\ Named
          /\ \E k \in 1..Len(TheCall.before) :
                /\ TheCall.before[k].deal_name = TheCall.deal_name
                /\ Contains(TheCall.before[k].description, Trimmed(Wanted))) =>
        ~TheCall.prompted

\* C6 witness: a link to a row whose description does not contain the
\* dependency description literally
LikeMatchingWitness ==
    /\ Called /\ Named /\ ~TheCall.prompted
    /\ ~Contains(RowOf(deliverables, Last(deliverables).depends_on_id[1]).description,
                 Trimmed(Wanted))
    /\ Trimmed(Wanted) /= <<>>

\* The lists of the entry being ingested
Tasks == getlist(metadata, "deliverables")
Aligned(list, k) == IF k < Len(list) THEN Some(list[k + 1]) ELSE None

\* C7: the row inserted for index k has description tasks[k], the due date,
\* owner and dependency description of index k of their lists or none when
\* the list is shorter; when the entry is done there is exactly one such row
\* per index, and every other row added for the entry is a placeholder.
PositionalAlignment ==
    /\ Called =>
        /\ Len(made) = TheCall.index + 1
        /\ i = Len(made)
        /\ SubSeq(deliverables, 1, Len(TheCall.before)) = TheCall.before
        /\ Len(deliverables) = Len(TheCall.before)
              + (IF TheCall.prompted /\ TheCall.answer = "y" THEN 2 ELSE 1)
        /\ Last(deliverables).id = made[Len(made)]
        /\ TheCall.depends_on_desc
             = Aligned(getlist(metadata, "dependencies"), TheCall.index)
    /\ pc \in {"log", "batch_loop", "batch", "done"} =>
        /\ Len(made) <= Len(Tasks)
        /\ \A k \in 1..Len(made) :
            /\ made[k] \in Ids(deliverables)
            /\ RowOf(deliverables, made[k]).description = Tasks[k]
            /\ RowOf(deliverables, made[k]).due_date
                 = Aligned(getlist(metadata, "dates"), k - 1)
            /\ RowOf(deliverables, made[k]).agent
                 = Aligned(getlist(metadata, "agents"), k - 1)
            /\ RowOf(deliverables, made[k]).deal_name = get(metadata, "deal_name")
        /\ \A k, m \in 1..Len(made) : k < m => made[k] < made[m]
    /\ (pc \in {"batch", "done"} /\ metadata /= None) => Len(made) = Len(Tasks)

\* C7 witness: an entry done whose dates are fewer than its tasks and whose
\* owners are more
PositionalAlignmentWitness ==
    /\ pc = "done"
    /\ metadata /= None
    /\ Len(Tasks) = 2
    /\ Len(made) = 2
    /\ Len(getlist(metadata, "dates")) = 1
    /\ RowOf(deliverables, made[2]).due_date = None
    /\ RowOf(deliverables, made[1]).due_date /= None

\* C7 witness of surplus values: more owners than tasks
SurplusWitness ==
    /\ pc = "done"
    /\ metadata /= None
    /\ Len(Tasks) = 1
    /\ Len(made) = 1
    /\ Len(getlist(metadata, "agents")) = 2

\* C8: tasks are resolved and inserted in input order: a task whose named
\* dependency matches the row of an earlier task of the entry, and no row
\* before that one, is linked to that row with no prompt; no task is linked
\* to its own row or to the row of a later task.
InOrder ==
    /\ (Called /\ Named) =>
        \A k \in 1..TheCall.index :
            (/\ k <= Len(made)
             /\ made[k] \in Matching(TheCall.before, TheCall.deal_name, Wanted)
             /\ \A id \in Matching(TheCall.before, TheCall.deal_name, Wanted) :
                    made[k] <= id) =>
                /\ ~TheCall.prompted
                /\ Last(deliverables).depends_on_id = Some(made[k])
    /\ \A k \in 1..Len(made) : \A m \in k..Len(made) :
        made[k] \in Ids(deliverables) =>
            RowOf(deliverables, made[k]).depends_on_id /= Some(made[m])

\* C8 witness: the second task of an entry linked to the row of the first
InOrderWitness ==
    /\ Called /\ Named
    /\ TheCall.index = 1
    /\ Len(made) = 2
    /\ Last(deliverables).depends_on_id = Some(made[1])

\* C9: no journal row and no deliverable row is written for an entry whose
\* project name is empty or missing (a journal row without a project name is
\* that of an entry whose extraction failed, which is C10's case).
MalformedRejected ==
    /\ \A k \in 1..Len(journal) : journal[k].deal_name /= Some("")
    /\ \A k \in 1..Len(deliverables) :
        deliverables[k].deal_name /= None /\ deliverables[k].deal_name /= Some("")

\* C10: when extraction fails, the journal row written for the entry holds
\* the entry's raw text in raw_note.
FailedExtractionKeepsNote ==
    (metadata /= None /\ "raw_ai" \in DOMAIN metadata) =>
        /\ journal /= <<>>
        /\ Last(journal).raw_note = Some(metadata.raw_ai)

----------------------------------------------------------------------------
(* Round trip of a description through the lookup *)

\* The store as it was right after its k-th deliverable was inserted
UpTo(k) == SubSeq(deliverables, 1, k)

\* The ids the lookup of the k-th row's own description returns, in the store
\* right after that row was inserted
OwnHits(k) ==
    selectIds(UpTo(k), deliverables[k].deal_name, LikeParam(deliverables[k].description))

\* What a deliverable naming the k-th row's own description as its dependency
\* is linked to, in the store right after that row was inserted
OwnResolved(k) ==
    store_deliverable(UpTo(k), deliverables[k].deal_name, <<"x">>, None, None,
                      Some(deliverables[k].description), FALSE).depends_on_id

\* C11 as stated: right after a deliverable is inserted, the lookup of its own
\* description within its project returns it as the sole or the first match,
\* and resolving that description yields the new row's id.
RoundTripFirst ==
    \A k \in 1..Len(deliverables) :
        /\ OwnHits(k) /= <<>>
        /\ OwnHits(k)[1] = deliverables[k].id
        /\ OwnResolved(k) = Some(deliverables[k].id)

\* C11: right after a deliverable with a description that is not empty is
\* inserted, the lookup of its own description within its project returns it
\* as the last match in storage order; resolving that description yields the
\* id of the earliest matching row, which is the new row exactly when no
\* earlier row of the project matches.
RoundTrip ==
    \A k \in 1..Len(deliverables) :
        LET new == deliverables[k]
            earlier == Matching(UpTo(k - 1), new.deal_name, new.description)
        IN new.description /= <<>> =>
            /\ OwnHits(k) /= <<>>
            /\ OwnHits(k)[Len(OwnHits(k))] = new.id
            /\ \A m \in 1..Len(OwnHits(k)) :
                   OwnHits(k)[m] \in earlier \cup {new.id}
            /\ OwnResolved(k) = Some(Min(earlier \cup {new.id}))
            /\ (OwnResolved(k) = Some(new.id)) <=> (earlier = {})

\* C11 witness: a row was inserted while an earlier row of its project matched
\* its description, and the lookup returns both
RoundTripWitness ==
    \E k \in 1..Len(deliverables) :
        /\ deliverables[k].description /= <<>>
        /\ Len(OwnHits(k)) >= 2
        /\ OwnResolved(k) /= Some(deliverables[k].id)

----------------------------------------------------------------------------
(* Connections *)

\* C12: whenever an operation has finished, on any exit path, the connection
\* it opened is closed.
ConnectionsReleased == conn = "closed"

----------------------------------------------------------------------------
(* The store only grows *)

\* The step is one of schedule
ScheduleStep == pc = "idle" /\ (view' /= None \/ pc' = "aborted")

\* C13: no step of log, batch_log, store_deliverable or schedule deletes a row
\* or changes a field of a row that existed before it: both tables keep their
\* rows as a prefix, and a step of schedule leaves both tables as they were.
AppendOnly ==
    [][ /\ Len(journal') >= Len(journal)
        /\ SubSeq(journal', 1, Len(journal)) = journal
        /\ Len(deliverables') >= Len(deliverables)
        /\ SubSeq(deliverables', 1, Len(deliverables)) = deliverables
        /\ ScheduleStep => (journal' = journal /\ deliverables' = deliverables)
      ]_vars

\* C13 witness: a call inserted a placeholder and a deliverable into a table
\* that already had rows
AppendOnlyWitness ==
    /\ Called
    /\ TheCall.before /= <<>>
    /\ Len(deliverables) = Len(TheCall.before) + 2
    /\ journal /= <<>>

----------------------------------------------------------------------------
(* The dependency graph *)

\* Where the link of the deliverable of this id leads: None when it has no
\* link or the id is not in the table
DependsOn(id) ==
    IF id \in Ids(deliverables) THEN RowOf(deliverables, id).depends_on_id ELSE None

\* The deliverable reached from id by following n links, None when the chain
\* ends before
RECURSIVE Follow(_, _)
Follow(id, n) ==
    IF n = 0 THEN Some(id)
    ELSE IF DependsOn(id) = None THEN None
    ELSE Follow(DependsOn(id)[1], n - 1)

\* Following the links from some deliverable returns to it
Cyclic ==
    \E k \in 1..Len(deliverables) : \E n \in 1..Len(deliverables) :
        Follow(deliverables[k].id, n) = Some(deliverables[k].id)

\* The two deliverables of the entry have been stored and each names the
\* other as its dependency
MutualEntry ==
    LET deps == getlist(metadata, "dependencies")
    IN /\ Len(Tasks) = 2
       /\ Len(made) = 2
       /\ Len(deps) >= 2
       /\ Trimmed(deps[1]) /= <<>>
       /\ Trimmed(deps[2]) /= <<>>
       /\ LikeContains(Tasks[2], Trimmed(deps[1]))
       /\ LikeContains(Tasks[1], Trimmed(deps[2]))

\* C14 as stated: ingestion can produce a cycle, namely when deliverables are
\* created that reference each other: once both are stored, following the
\* links from one of them returns to it.
MutualReferenceCycles == MutualEntry => Cyclic

\* C14: no cycle is reachable: following the links from a deliverable never
\* returns to it, because each link is set once, at insertion, to the id of a
\* row that is already in the table.
Acyclic ==
    \A k \in 1..Len(deliverables) : \A n \in 1..Len(deliverables) :
        Follow(deliverables[k].id, n) /= Some(deliverables[k].id)

\* C14 witness: a chain of two links, from a deliverable through the one it
\* depends on to a third
AcyclicWitness ==
    \E k \in 1..Len(deliverables) : Follow(deliverables[k].id, 2) /= None

----------------------------------------------------------------------------
(* The schedule of one project *)

\* schedule has listed the deliverables of a project
Listed == view /= None /\ view[1].kind = "Deliverables for"

\* The places in the table of the rows of the listed project
ListedRows == { k \in 1..Len(deliverables) :
                  deliverables[k].deal_name = Some(view[1].project) }

\* The line shows the row: its description, its due date or "No date" when it
\* has none, and no note when it has no link
Shows(line, row) ==
    /\ line.desc = row.description
    /\ line.due = (IF row.due_date = None THEN NoDate ELSE <<"date", row.due_date[1]>>)
    /\ (row.depends_on_id = None) <=> (line.dep_note = None)

\* C15: the schedule of a project lists each deliverable of the project exactly
\* once, shows "No date" for a deliverable without a due date, and for each
\* deliverable with a link shows the description of the row the link names;
\* that row is always a row of the same project, so the label is never
\* "Unknown" and never an id.
ScheduleView ==
    Listed =>
        /\ Len(view[1].lines) = Cardinality(ListedRows)
        /\ \E g \in [1..Len(view[1].lines) -> ListedRows] :
              /\ \A a, b \in DOMAIN g : a /= b => g[a] /= g[b]
              /\ \A a \in DOMAIN g :
                    LET line == view[1].lines[a]
                        row == deliverables[g[a]]
                    IN /\ Shows(line, row)
                       /\ row.depends_on_id /= None =>
                            /\ \E k \in ListedRows :
                                  /\ deliverables[k].id = row.depends_on_id[1]
                                  /\ line.dep_note = Some(deliverables[k].description)
                            /\ line.dep_note /= Some(Unknown)

\* C15 witness: a listing with a deliverable without a due date and a
\* deliverable with a link
ScheduleViewWitness ==
    /\ Listed
    /\ Len(view[1].lines) >= 2
    /\ \E a \in 1..Len(view[1].lines) : view[1].lines[a].due = NoDate
    /\ \E a \in 1..Len(view[1].lines) : view[1].lines[a].dep_note /= None

====
